---- MODULE Spec2Model ----
(***************************************************************************)
(* Model of src/dados.py: the ENEM micro-data pipeline.  One process runs  *)
(* main() step by step (driver check, configuration, output directory,    *)
(* connection, table loading, extraction, reports); the relational store  *)
(* and the two CSV files are the environment it acts on.  The store and   *)
(* the files persist from one run of the program to the next.             *)
(***************************************************************************)
EXTENDS Integers, Sequences, FiniteSets, TLC

(* ------------------------------ bounds ------------------------------- *)

\* Longest CSV file (data rows, header excluded) of the pipeline runs.
MaxRows == 3
\* Number of consecutive runs of the program against the same store.
MaxRuns == 2
\* chunksize default of the two loaders, scaled down from 50000 so that a
\* file of MaxRows rows is written in more than one batch.
ChunkPadrao == 2
\* Largest chunksize of a direct call of carregar_tabela_csv.
MaxChunk == 4
\* Longest table of the extraction runs.
MaxTab == 2

(* ------------------------------- data -------------------------------- *)

\* os.getenv's result for a variable that is not set.
None == "<None>"
\* pandas' missing value: a score that is absent, or a registration number
\* that index alignment could not supply.  Real values are >= 0.
NaN == 0 - 1

Keys ==
    {"DB_HOST", "DB_PORT", "DB_NAME", "DB_USER", "DB_PASS",
     "ARQUIVO_PARTICIPANTES", "ARQUIVO_RESULTADOS",
     "TABELA_PARTICIPANTES", "TABELA_RESULTADOS"}

\* The two paths the environment may name, and the table names it may name.
CaminhoP == "MICRODADOS_ENEM.csv"
CaminhoR == "RESULTADOS.csv"
NomesP == {"participantes", "enem"}
NomesR == {"resultados", "enem"}
TableNames == NomesP \cup NomesR

ColunasNotas ==
    {"NU_NOTA_CN", "NU_NOTA_CH", "NU_NOTA_LC", "NU_NOTA_MT", "NU_NOTA_REDACAO"}

Participante(insc, renda) ==
    [NU_INSCRICAO |-> insc, Q006 |-> renda, TP_SEXO |-> "F",
     TP_COR_RACA |-> 1, SG_UF_PROVA |-> "SP"]

\* A row of the result file: the five scores, `falta` being the one column
\* (or none, "") whose value is missing.
Notas(falta) ==
    [c \in ColunasNotas |-> IF c = falta THEN NaN ELSE 600]

\* A row of the results table: a result-file row with NU_INSCRICAO attached.
Resultado(insc, notas) ==
    [NU_INSCRICAO |-> insc,
     NU_NOTA_CN |-> notas["NU_NOTA_CN"], NU_NOTA_CH |-> notas["NU_NOTA_CH"],
     NU_NOTA_LC |-> notas["NU_NOTA_LC"], NU_NOTA_MT |-> notas["NU_NOTA_MT"],
     NU_NOTA_REDACAO |-> notas["NU_NOTA_REDACAO"]]

Min(a, b) == IF a <= b THEN a ELSE b

\* f with key k bound to v (k is added when f lacks it).
Put(f, k, v) == [x \in DOMAIN f \cup {k} |-> IF x = k THEN v ELSE f[x]]

(* ----------------------------- variables ----------------------------- *)

VARIABLES
    env,               \* the process environment: set variables -> value
    fs,                \* the file system: existing paths -> data rows
    store,             \* the database: existing tables -> rows
    pc,                \* where the process is
    run,               \* number of the current run of the program
    status,            \* exit status of the run (NaN while running)
    trace,             \* a stack trace was printed in this run
    config,            \* carregar_config's dictionary
    pasta_criada,      \* os.makedirs ran in this run
    conexao,           \* a connection to the store was attempted in this run
    tem_participantes, \* verificar_carregar's catalog answers
    tem_resultados,
    caller,            \* "main", or "direct" for a call outside main()
    nome_tabela,       \* carregar_tabela_csv's arguments and loop counter
    caminho_csv,
    chunksize,
    i,
    df_resultados,     \* carregar_tabela_resultados' frame
    df,                \* extrair_processar's result
    chamadas,          \* loaders called in this run, in order
    escritas,          \* to_sql calls of this run: <<function, table, if_exists>>
    lidos,             \* files read in this run: <<function, path>>
    consultas,         \* tables the extraction query named in this run
    erro,              \* class of the exception raised in this run
    origem,            \* function that raised it
    interrompido,      \* where Ctrl+C arrived in this run ("" if it did not)
    store0,            \* the store as this run found it
    parcial            \* <<rows>> a load left behind when it stopped midway

vars ==
    <<env, fs, store, pc, run, status, trace, config, pasta_criada, conexao,
      tem_participantes, tem_resultados, caller, nome_tabela, caminho_csv,
      chunksize, i, df_resultados, df, chamadas, escritas, lidos, consultas,
      erro, origem, interrompido, store0, parcial>>

\* The variables of one run of the program, as they are when it starts.
FreshRun ==
    /\ status = NaN
    /\ trace = FALSE
    /\ config = [k \in Keys |-> None]
    /\ pasta_criada = FALSE
    /\ conexao = FALSE
    /\ tem_participantes = FALSE
    /\ tem_resultados = FALSE
    /\ nome_tabela = None
    /\ caminho_csv = None
    /\ chunksize = ChunkPadrao
    /\ i = 0
    /\ df_resultados = <<>>
    /\ df = <<>>
    /\ chamadas = <<>>
    /\ escritas = <<>>
    /\ lidos = {}
    /\ consultas = {}
    /\ erro = ""
    /\ origem = ""
    /\ interrompido = ""

(* ------------------------- pure helpers of the code ------------------- *)

\* os.getenv(k).
getenv(k) == IF k \in DOMAIN env THEN env[k] ELSE None

\* Exit statuses: the interpreter's status when the script ends normally,
\* sys.exit(1) of the fatal paths, sys.exit(0) of the KeyboardInterrupt
\* handler.
StatusSucesso == 0
StatusErro == 1
\* (the interrupt handler exiting like a fatal error)
StatusInterrupcaoComoErro == StatusErro
StatusInterrupcao == 0

\* inspector.has_table(t): the catalog lookup.  A name that is None matches
\* no table.
\* (a lookup that finds no table, as one in the wrong schema)
has_table_nunca(t) == FALSE
has_table(t) == t \in DOMAIN store

\* os.path.exists(path) for a path that is a string.
\* (the existence check left out)
exists_sempre(path) == TRUE
exists(path) == path \in DOMAIN fs

\* The early return of verificar_carregar and the guards of its two loads.
PulaCarga(tp, tr) == tp /\ tr
\* (the loads without their guards)
CarregaParticipantesSempre(tp) == TRUE
CarregaParticipantes(tp) == ~tp
CarregaResultadosSempre(tr) == TRUE
CarregaResultados(tr) == ~tr

\* if_exists of batch number k (from 0) of carregar_tabela_csv.
\* (every batch appended)
IfExistsAppend(k) == "append"
IfExists(k) == IF k > 0 THEN "append" ELSE "replace"

\* DataFrame.to_sql(name, engine, if_exists=...) once committed.
to_sql(st, name, rows, if_exists) ==
    IF if_exists = "append" /\ name \in DOMAIN st
    THEN Put(st, name, st[name] \o rows)
    ELSE Put(st, name, rows)

\* pd.read_csv(..., chunksize=size): the number of chunks the iterator
\* yields for n data rows (a file with a header and no data row yields one
\* empty chunk), and chunk number k (from 0).
NumChunks(n, size) == IF n = 0 THEN 1 ELSE (n + size - 1) \div size
Chunk(rows, k, size) ==
    SubSeq(rows, k * size + 1, Min((k + 1) * size, Len(rows)))

\* df_resultados['NU_INSCRICAO'] = df_inscricoes['NU_INSCRICAO']: both
\* frames carry the default index 0..n-1, the assignment aligns on it, and a
\* result row whose index the registration column lacks gets NaN.
\* (the registration column attached in reverse order)
AnexarInvertido(resultados, inscricoes) ==
    [j \in 1..Len(resultados) |->
        Resultado(IF j <= Len(inscricoes)
                  THEN inscricoes[Len(inscricoes) + 1 - j] ELSE NaN,
                  resultados[j])]
Anexar(resultados, inscricoes) ==
    [j \in 1..Len(resultados) |->
        Resultado(IF j <= Len(inscricoes) THEN inscricoes[j] ELSE NaN,
                  resultados[j])]

\* usecols=['NU_INSCRICAO'] of the participant file.
Inscricoes(participantes) ==
    [j \in 1..Len(participantes) |-> participantes[j].NU_INSCRICAO]

(* --------------------------- extraction ------------------------------ *)

\* The score columns dropna checks.
\* (the essay column left out of the check)
col_notas_objetivas ==
    {"NU_NOTA_CN", "NU_NOTA_CH", "NU_NOTA_LC", "NU_NOTA_MT"}
col_notas ==
    {"NU_NOTA_CN", "NU_NOTA_CH", "NU_NOTA_LC", "NU_NOTA_MT", "NU_NOTA_REDACAO"}

\* The income codes of the query's WHERE clause.
RendasConsulta == {"A", "B"}

\* The joined rows the query returns, each named by the pair <<a, b>> of
\* the participant row and the result row it joins.  An SQL NULL joins
\* nothing.
Consulta(p, r) ==
    {x \in (1..Len(p)) \X (1..Len(r)) :
        /\ p[x[1]].NU_INSCRICAO # NaN
        /\ p[x[1]].NU_INSCRICAO = r[x[2]].NU_INSCRICAO
        /\ p[x[1]].Q006 \in RendasConsulta}

\* df.dropna(subset=col_notas).
dropna(p, r, linhas) ==
    {x \in linhas : \A c \in col_notas : r[x[2]][c] # NaN}

\* df['Q006'].map({'A': 'Nenhuma Renda', 'B': 'Ate 1,3k'}).
GrupoRenda(q) ==
    IF q = "A" THEN "Nenhuma Renda" ELSE IF q = "B" THEN "Ate 1,3k" ELSE "NaN"

\* The frame extrair_processar returns, keyed by the joined pair.  Scores are
\* multiples of 4, so the mean of the four objective scores is exact.
Processar(p, r) ==
    [x \in dropna(p, r, Consulta(p, r)) |->
        [Q006 |-> p[x[1]].Q006, TP_SEXO |-> p[x[1]].TP_SEXO,
         TP_COR_RACA |-> p[x[1]].TP_COR_RACA,
         SG_UF_PROVA |-> p[x[1]].SG_UF_PROVA,
         NU_NOTA_CN |-> r[x[2]].NU_NOTA_CN, NU_NOTA_CH |-> r[x[2]].NU_NOTA_CH,
         NU_NOTA_LC |-> r[x[2]].NU_NOTA_LC, NU_NOTA_MT |-> r[x[2]].NU_NOTA_MT,
         NU_NOTA_REDACAO |-> r[x[2]].NU_NOTA_REDACAO,
         NOTA_MEDIA_OBJETIVA |->
            (r[x[2]].NU_NOTA_CN + r[x[2]].NU_NOTA_CH
             + r[x[2]].NU_NOTA_LC + r[x[2]].NU_NOTA_MT) \div 4,
         GRUPO_RENDA |-> GrupoRenda(p[x[1]].Q006)]]

\* The two tables the query names.
TabelasConsulta == {"participantes", "resultados"}

(* ------------------------- the states it starts in -------------------- *)

\* An environment that sets every variable, naming tables tp and tr.
EnvDe(tp, tr) ==
    [k \in Keys |->
        CASE k = "TABELA_PARTICIPANTES" -> tp
          [] k = "TABELA_RESULTADOS" -> tr
          [] k = "ARQUIVO_PARTICIPANTES" -> CaminhoP
          [] k = "ARQUIVO_RESULTADOS" -> CaminhoR
          [] k = "DB_PORT" -> "5432"
          [] OTHER -> "enem"]

\* The environments: complete, with one variable unset, or with an empty
\* password.
Envs ==
    LET completos == {EnvDe(tp, tr) : tp \in NomesP, tr \in NomesR}
    IN  completos
        \cup {[x \in Keys \ {k} |-> e[x]] : e \in completos, k \in Keys}
        \cup {[e EXCEPT !["DB_PASS"] = ""] : e \in completos}

\* Participant file of n rows: registration numbers 101, 102, ... and the
\* income codes A, C, B, A, ...
ArquivoP(n) ==
    [j \in 1..n |->
        Participante(100 + j,
                     IF j % 3 = 1 THEN "A" ELSE IF j % 3 = 2 THEN "C" ELSE "B")]

\* Result file of m rows; row 3 lacks its essay score.
ArquivoR(m) ==
    [j \in 1..m |-> Notas(IF j = 3 THEN "NU_NOTA_REDACAO" ELSE "")]

\* The file systems: each of the two files missing (-1) or of 0..MaxRows rows.
FsDe(np, nr) ==
    [x \in (IF np >= 0 THEN {CaminhoP} ELSE {})
           \cup (IF nr >= 0 THEN {CaminhoR} ELSE {}) |->
        IF x = CaminhoP THEN ArquivoP(np) ELSE ArquivoR(nr)]
Arquivos == {FsDe(np, nr) : np \in (0 - 1)..MaxRows, nr \in (0 - 1)..MaxRows}

\* What a table left by an earlier, unrelated load holds.
Antiga(t) ==
    IF t = "resultados"
    THEN <<Resultado(999, Notas(""))>>
    ELSE <<Participante(999, "A")>>
Stores == {[t \in D |-> Antiga(t)] : D \in SUBSET TableNames}

\* A first run of the program.
Init ==
    /\ env \in Envs
    /\ fs \in Arquivos
    /\ store \in Stores
    /\ store0 = store
    /\ parcial = <<>>
    /\ pc = "start"
    /\ caller = "main"
    /\ run = 1
    /\ FreshRun

(* ------------------------------ raising ------------------------------ *)

\* raise e in function f: inside main() the exception reaches the
\* `except Exception` of the script; a direct caller sees it.
Raise(e, f) ==
    /\ erro' = e
    /\ origem' = f
    /\ pc' = IF caller = "main" THEN "handler" ELSE "raised"

\* sys.exit(code).
Exit(code) ==
    /\ pc' = "exit"
    /\ status' = code

(* --------------------------- main(), in order ------------------------ *)

\* load_dotenv() and verificar_driver_postgresql(): a driver is found, or
\* the program exits.
VerificarDriver ==
    /\ pc = "start"
    /\ \E achou \in BOOLEAN :
          IF achou THEN pc' = "config" /\ status' = status ELSE Exit(StatusErro)
    /\ UNCHANGED <<env, fs, store, run, trace, config, pasta_criada, conexao,
                   tem_participantes, tem_resultados, caller, nome_tabela,
                   caminho_csv, chunksize, i, df_resultados, df, chamadas,
                   escritas, lidos, consultas, erro, origem, interrompido,
                   store0, parcial>>

\* carregar_config(): int(os.getenv('DB_PORT')) raises TypeError on None
\* while the dictionary is built; only DB_PASS is validated afterwards.
CarregarConfig ==
    /\ pc = "config"
    /\ IF getenv("DB_PORT") = None
       THEN /\ Raise("TypeError", "carregar_config")
            /\ UNCHANGED <<config, status>>
       ELSE IF getenv("DB_PASS") \in {None, ""}
       THEN /\ Exit(StatusErro)
            /\ UNCHANGED <<config, erro, origem>>
       ELSE /\ config' = [k \in Keys |-> getenv(k)]
            /\ pc' = "mkdir"
            /\ UNCHANGED <<status, erro, origem>>
    /\ UNCHANGED <<env, fs, store, run, trace, pasta_criada, conexao,
                   tem_participantes, tem_resultados, caller, nome_tabela,
                   caminho_csv, chunksize, i, df_resultados, df, chamadas,
                   escritas, lidos, consultas, interrompido, store0, parcial>>

\* os.makedirs(pasta_resultados, exist_ok=True).
CriarPasta ==
    /\ pc = "mkdir"
    /\ pasta_criada' = TRUE
    /\ pc' = "connect"
    /\ UNCHANGED <<env, fs, store, run, status, trace, config, conexao,
                   tem_participantes, tem_resultados, caller, nome_tabela,
                   caminho_csv, chunksize, i, df_resultados, df, chamadas,
                   escritas, lidos, consultas, erro, origem, interrompido,
                   store0, parcial>>

\* conectar_db(): the store answers, or the failure is caught there and the
\* program exits.
ConectarDb ==
    /\ pc = "connect"
    /\ conexao' = TRUE
    /\ \E ok \in BOOLEAN :
          IF ok THEN pc' = "orch" /\ status' = status ELSE Exit(StatusErro)
    /\ UNCHANGED <<env, fs, store, run, trace, config, pasta_criada,
                   tem_participantes, tem_resultados, caller, nome_tabela,
                   caminho_csv, chunksize, i, df_resultados, df, chamadas,
                   escritas, lidos, consultas, erro, origem, interrompido,
                   store0, parcial>>

\* verificar_carregar() up to its first load: the two catalog lookups, the
\* early return, the call of carregar_tabela_csv or, when the participants
\* table exists, of carregar_tabela_resultados.
VerificarCarregar ==
    /\ pc = "orch"
    /\ LET tabela_p == config["TABELA_PARTICIPANTES"]
           tabela_r == config["TABELA_RESULTADOS"]
           tp == has_table(tabela_p)
           tr == has_table(tabela_r)
       IN  /\ tem_participantes' = tp
           /\ tem_resultados' = tr
           /\ IF PulaCarga(tp, tr)
              THEN /\ pc' = "extract"
                   /\ UNCHANGED <<nome_tabela, caminho_csv, chunksize, i,
                                  chamadas>>
              ELSE IF CarregaParticipantes(tp)
              THEN /\ pc' = "csv_check"
                   /\ nome_tabela' = tabela_p
                   /\ caminho_csv' = config["ARQUIVO_PARTICIPANTES"]
                   /\ chunksize' = ChunkPadrao
                   /\ i' = 0
                   /\ chamadas' = Append(chamadas, "carregar_tabela_csv")
              ELSE IF CarregaResultados(tr)
              THEN /\ pc' = "res_check"
                   /\ chunksize' = ChunkPadrao
                   /\ chamadas' = Append(chamadas, "carregar_tabela_resultados")
                   /\ UNCHANGED <<nome_tabela, caminho_csv, i>>
              ELSE /\ pc' = "extract"
                   /\ UNCHANGED <<nome_tabela, caminho_csv, chunksize, i,
                                  chamadas>>
    /\ UNCHANGED <<env, fs, store, run, status, trace, config, pasta_criada,
                   conexao, caller, df_resultados, df, escritas, lidos,
                   consultas, erro, origem, interrompido, store0, parcial>>

\* verificar_carregar() after carregar_tabela_csv returned: the second load.
VerificarResultados ==
    /\ pc = "csv_done"
    /\ caller = "main"
    /\ IF CarregaResultados(tem_resultados)
       THEN /\ pc' = "res_check"
            /\ chunksize' = ChunkPadrao
            /\ chamadas' = Append(chamadas, "carregar_tabela_resultados")
       ELSE /\ pc' = "extract"
            /\ UNCHANGED <<chunksize, chamadas>>
    /\ UNCHANGED <<env, fs, store, run, status, trace, config, pasta_criada,
                   conexao, tem_participantes, tem_resultados, caller,
                   nome_tabela, caminho_csv, i, df_resultados, df, escritas, lidos,
                   consultas, erro, origem, interrompido, store0, parcial>>

\* verificar_carregar() returns after carregar_tabela_resultados did.
RetornarCarga ==
    /\ pc = "res_done"
    /\ caller = "main"
    /\ pc' = "extract"
    /\ UNCHANGED <<env, fs, store, run, status, trace, config, pasta_criada,
                   conexao, tem_participantes, tem_resultados, caller,
                   nome_tabela, caminho_csv, chunksize, i, df_resultados, df,
                   chamadas, escritas, lidos, consultas, erro, origem,
                   interrompido, store0, parcial>>

(* ------------------------ carregar_tabela_csv ------------------------ *)

\* Up to the creation of the chunk iterator: os.path.exists raises
\* TypeError on None, a missing file raises FileNotFoundError (from the
\* check, or else from pd.read_csv), otherwise the file is opened.
CsvCheck ==
    /\ pc = "csv_check"
    /\ IF caminho_csv = None
       THEN /\ Raise("TypeError", "carregar_tabela_csv")
            /\ UNCHANGED <<lidos, i>>
       ELSE IF ~exists(caminho_csv) \/ caminho_csv \notin DOMAIN fs
       THEN /\ Raise("FileNotFoundError", "carregar_tabela_csv")
            /\ UNCHANGED <<lidos, i>>
       ELSE /\ lidos' = lidos \cup {<<"carregar_tabela_csv", caminho_csv>>}
            /\ i' = 0
            /\ pc' = "csv_chunk"
            /\ UNCHANGED <<erro, origem>>
    /\ UNCHANGED <<env, fs, store, run, status, trace, config, pasta_criada,
                   conexao, tem_participantes, tem_resultados, caller,
                   nome_tabela, caminho_csv, chunksize, df_resultados, df,
                   chamadas, escritas, consultas, interrompido, store0,
                   parcial>>

\* The rows a load holds in its table when it stops between two batches.
Deixado ==
    IF pc = "csv_chunk" /\ i > 0 /\ i < NumChunks(Len(fs[caminho_csv]), chunksize)
    THEN <<store[nome_tabela]>>
    ELSE parcial

\* One turn of the loop over the chunks: the next chunk is written and
\* committed (replace for the first, append after it), or the write raises
\* and leaves the table as the earlier batches made it; with no chunk left
\* the function returns.  The store rejects a table name that is None.
CsvChunk ==
    /\ pc = "csv_chunk"
    /\ LET arquivo == fs[caminho_csv]
       IN  IF i < NumChunks(Len(arquivo), chunksize)
           THEN \E ok \in (IF nome_tabela = None THEN {FALSE} ELSE BOOLEAN) :
                   IF ok
                   THEN /\ store' = to_sql(store, nome_tabela,
                                           Chunk(arquivo, i, chunksize),
                                           IfExists(i))
                        /\ escritas' = Append(escritas,
                              <<"carregar_tabela_csv", nome_tabela, IfExists(i)>>)
                        /\ i' = i + 1
                        /\ UNCHANGED <<pc, erro, origem, parcial>>
                   ELSE /\ Raise("DatabaseError", "carregar_tabela_csv")
                        /\ parcial' = Deixado
                        /\ UNCHANGED <<store, escritas, i>>
           ELSE /\ pc' = "csv_done"
                /\ UNCHANGED <<store, escritas, i, erro, origem, parcial>>
    /\ UNCHANGED <<env, fs, run, status, trace, config, pasta_criada, conexao,
                   tem_participantes, tem_resultados, caller, nome_tabela,
                   caminho_csv, chunksize, df_resultados, df, chamadas, lidos,
                   consultas, interrompido, store0>>

(* --------------------- carregar_tabela_resultados -------------------- *)

\* Up to the existence check of the result file.
ResCheck ==
    /\ pc = "res_check"
    /\ nome_tabela' = config["TABELA_RESULTADOS"]
    /\ LET caminho == config["ARQUIVO_RESULTADOS"]
       IN  IF caminho = None
           THEN Raise("TypeError", "carregar_tabela_resultados")
           ELSE IF ~exists(caminho)
           THEN Raise("FileNotFoundError", "carregar_tabela_resultados")
           ELSE pc' = "res_read" /\ UNCHANGED <<erro, origem>>
    /\ UNCHANGED <<env, fs, store, run, status, trace, config, pasta_criada,
                   conexao, tem_participantes, tem_resultados, caller,
                   caminho_csv, chunksize, i, df_resultados, df, chamadas,
                   escritas, lidos, consultas, interrompido, store0, parcial>>

\* The two reads and the attachment of the registration column.  pd.read_csv
\* raises ValueError on a path that is None and FileNotFoundError on a
\* missing file; the participant file is read first.
ResRead ==
    /\ pc = "res_read"
    /\ LET caminho_p == config["ARQUIVO_PARTICIPANTES"]
           caminho_r == config["ARQUIVO_RESULTADOS"]
           f == "carregar_tabela_resultados"
       IN  IF caminho_p = None
           THEN /\ Raise("ValueError", f)
                /\ UNCHANGED <<lidos, df_resultados>>
           ELSE IF caminho_p \notin DOMAIN fs
           THEN /\ Raise("FileNotFoundError", f)
                /\ UNCHANGED <<lidos, df_resultados>>
           ELSE IF caminho_r \notin DOMAIN fs
           THEN /\ Raise("FileNotFoundError", f)
                /\ lidos' = lidos \cup {<<f, caminho_p>>}
                /\ UNCHANGED df_resultados
           ELSE /\ lidos' = lidos \cup {<<f, caminho_p>>, <<f, caminho_r>>}
                /\ df_resultados' =
                      Anexar(fs[caminho_r], Inscricoes(fs[caminho_p]))
                /\ pc' = "res_write"
                /\ UNCHANGED <<erro, origem>>
    /\ UNCHANGED <<env, fs, store, run, status, trace, config, pasta_criada,
                   conexao, tem_participantes, tem_resultados, caller,
                   nome_tabela, caminho_csv, chunksize, i, df, chamadas,
                   escritas, consultas, interrompido, store0, parcial>>

\* df_resultados.to_sql(if_exists='replace', chunksize=...): the batches of
\* one to_sql call share a transaction.  When it fails the table is as it
\* was, or, where the library commits the drop and the create before the
\* inserts, it exists and is empty.
ResWrite ==
    /\ pc = "res_write"
    /\ \E ok \in (IF nome_tabela = None THEN {FALSE} ELSE BOOLEAN) :
          IF ok
          THEN /\ store' = to_sql(store, nome_tabela, df_resultados, "replace")
               /\ escritas' = Append(escritas,
                     <<"carregar_tabela_resultados", nome_tabela, "replace">>)
               /\ pc' = "res_done"
               /\ UNCHANGED <<erro, origem>>
          ELSE /\ Raise("DatabaseError", "carregar_tabela_resultados")
               /\ \/ UNCHANGED <<store, escritas>>
                  \/ /\ nome_tabela # None
                     /\ store' = to_sql(store, nome_tabela, <<>>, "replace")
                     /\ escritas' = Append(escritas,
                           <<"carregar_tabela_resultados", nome_tabela, "replace">>)
    /\ UNCHANGED <<env, fs, run, status, trace, config, pasta_criada, conexao,
                   tem_participantes, tem_resultados, caller, nome_tabela,
                   caminho_csv, chunksize, i, df_resultados, df, chamadas,
                   lidos, consultas, interrompido, store0, parcial>>

(* ---------------------- extraction and reports ----------------------- *)

\* extrair_processar(): the query names its two tables; the store raises
\* when one of them does not exist.
ExtrairProcessar ==
    /\ pc = "extract"
    /\ consultas' = TabelasConsulta
    /\ IF TabelasConsulta \subseteq DOMAIN store
       THEN /\ df' = Processar(store["participantes"], store["resultados"])
            /\ pc' = "extract_done"
            /\ UNCHANGED <<erro, origem>>
       ELSE /\ Raise("ProgrammingError", "extrair_processar")
            /\ UNCHANGED df
    /\ UNCHANGED <<env, fs, store, run, status, trace, config, pasta_criada,
                   conexao, tem_participantes, tem_resultados, caller,
                   nome_tabela, caminho_csv, chunksize, i, df_resultados,
                   chamadas, escritas, lidos, interrompido, store0, parcial>>

\* gerar_csv_para_pbi, gerar_estatisticas, gerar_graficos and the end of
\* main(): the reports are written and the script ends, or one of them
\* raises.
GerarSaidas ==
    /\ pc = "extract_done"
    /\ caller = "main"
    /\ \E ok \in BOOLEAN :
          IF ok
          THEN Exit(StatusSucesso) /\ UNCHANGED <<erro, origem>>
          ELSE Raise("Exception", "gerar_saidas") /\ UNCHANGED status
    /\ UNCHANGED <<env, fs, store, run, trace, config, pasta_criada, conexao,
                   tem_participantes, tem_resultados, caller, nome_tabela,
                   caminho_csv, chunksize, i, df_resultados, df, chamadas,
                   escritas, lidos, consultas, interrompido, store0, parcial>>

(* ----------------------- the script's handlers ----------------------- *)

\* except Exception: the message and the stack trace, then sys.exit(1).
Handler ==
    /\ pc = "handler"
    /\ trace' = TRUE
    /\ Exit(StatusErro)
    /\ UNCHANGED <<env, fs, store, run, config, pasta_criada, conexao,
                   tem_participantes, tem_resultados, caller, nome_tabela,
                   caminho_csv, chunksize, i, df_resultados, df, chamadas,
                   escritas, lidos, consultas, erro, origem, interrompido,
                   store0, parcial>>

\* Where main() can be when Ctrl+C arrives.
MainPcs ==
    {"start", "config", "mkdir", "connect", "orch", "csv_check", "csv_chunk",
     "csv_done", "res_check", "res_read", "res_write", "res_done", "extract",
     "extract_done"}

\* Ctrl+C.  Inside main() the KeyboardInterrupt reaches the script's
\* `except KeyboardInterrupt`: a message and sys.exit(0).  Inside the
\* `except Exception` handler nothing catches it: the interpreter prints the
\* stack trace and ends with the status of SIGINT.
Interromper ==
    /\ caller = "main"
    /\ \/ /\ pc \in MainPcs
          /\ interrompido' = "main"
          /\ Exit(StatusInterrupcao)
          /\ UNCHANGED trace
       \/ /\ pc = "handler"
          /\ interrompido' = "handler"
          /\ trace' = TRUE
          /\ Exit(130)
    /\ parcial' = Deixado
    /\ UNCHANGED <<env, fs, store, run, config, pasta_criada, conexao,
                   tem_participantes, tem_resultados, caller, nome_tabela,
                   caminho_csv, chunksize, i, df_resultados, df, chamadas,
                   escritas, lidos, consultas, erro, origem, store0>>

\* The program is run again, against the store and the files as they are.
NovaExecucao ==
    /\ pc = "exit"
    /\ caller = "main"
    /\ run < MaxRuns
    /\ run' = run + 1
    /\ pc' = "start"
    /\ store0' = store
    /\ status' = NaN
    /\ trace' = FALSE
    /\ config' = [k \in Keys |-> None]
    /\ pasta_criada' = FALSE
    /\ conexao' = FALSE
    /\ tem_participantes' = FALSE
    /\ tem_resultados' = FALSE
    /\ nome_tabela' = None
    /\ caminho_csv' = None
    /\ chunksize' = ChunkPadrao
    /\ i' = 0
    /\ df_resultados' = <<>>
    /\ df' = <<>>
    /\ chamadas' = <<>>
    /\ escritas' = <<>>
    /\ lidos' = {}
    /\ consultas' = {}
    /\ erro' = ""
    /\ origem' = ""
    /\ interrompido' = ""
    /\ UNCHANGED <<env, fs, store, caller, parcial>>

Next ==
    \/ VerificarDriver
    \/ CarregarConfig
    \/ CriarPasta
    \/ ConectarDb
    \/ VerificarCarregar
    \/ VerificarResultados
    \/ RetornarCarga
    \/ CsvCheck
    \/ CsvChunk
    \/ ResCheck
    \/ ResRead
    \/ ResWrite
    \/ ExtrairProcessar
    \/ GerarSaidas
    \/ Handler
    \/ Interromper
    \/ NovaExecucao

Spec == Init /\ [][Next]_vars

(* -------------------- the loaders, called directly -------------------- *)

\* What is common to the states a direct call starts in.
Direto ==
    /\ caller = "direct"
    /\ run = 1
    /\ store0 = store
    /\ parcial = <<>>
    /\ status = NaN
    /\ trace = FALSE
    /\ pasta_criada = FALSE
    /\ conexao = FALSE
    /\ tem_participantes = FALSE
    /\ tem_resultados = FALSE
    /\ i = 0
    /\ df_resultados = <<>>
    /\ df = <<>>
    /\ escritas = <<>>
    /\ lidos = {}
    /\ consultas = {}
    /\ erro = ""
    /\ origem = ""
    /\ interrompido = ""

\* A store whose tables hold the first row of the participant file, as an
\* earlier load that stopped after one row leaves them.
MeiaCarga == [t \in TableNames |-> SubSeq(ArquivoP(MaxRows), 1, 1)]

\* carregar_tabela_csv(engine, nome_tabela, caminho_csv, chunksize) on any
\* table, any file (or none) and any chunksize, or
\* carregar_tabela_resultados(engine, config), over any earlier content of
\* the store.
InitCarga ==
    /\ fs \in Arquivos
    /\ \/ /\ pc = "csv_check"
          /\ store \in Stores \cup {MeiaCarga}
          /\ env = EnvDe("participantes", "resultados")
          /\ nome_tabela \in TableNames
          /\ caminho_csv = CaminhoP
          /\ chunksize \in 1..MaxChunk
          /\ chamadas = <<"carregar_tabela_csv">>
       \/ /\ pc = "res_check"
          /\ store \in Stores
          /\ env \in {EnvDe(tp, tr) : tp \in NomesP, tr \in NomesR}
          /\ nome_tabela = None
          /\ caminho_csv = None
          /\ chunksize = ChunkPadrao
          /\ chamadas = <<"carregar_tabela_resultados">>
    /\ config = env
    /\ Direto

NextCarga ==
    \/ CsvCheck
    \/ CsvChunk
    \/ ResCheck
    \/ ResRead
    \/ ResWrite

SpecCarga == InitCarga /\ [][NextCarga]_vars

(* ------------------ the extraction, called directly ------------------ *)

\* The sequences over S of length at most n.
SeqsAte(S, n) == UNION {[1..k -> S] : k \in 0..n}

LinhasP == {Participante(n, q) : n \in {1, 2}, q \in {"A", "B", "C"}}
LinhasR ==
    {Resultado(n, Notas(f)) : n \in {1, 2}, f \in ColunasNotas \cup {""}}

\* extrair_processar(engine) over any two tables of at most MaxTab rows.
InitExtracao ==
    /\ pc = "extract"
    /\ env = EnvDe("participantes", "resultados")
    /\ config = env
    /\ fs = FsDe(0 - 1, 0 - 1)
    /\ \E p \in SeqsAte(LinhasP, MaxTab), r \in SeqsAte(LinhasR, MaxTab) :
          store = [t \in TabelasConsulta |->
                      IF t = "participantes" THEN p ELSE r]
    /\ nome_tabela = None
    /\ caminho_csv = None
    /\ chunksize = ChunkPadrao
    /\ chamadas = <<>>
    /\ Direto

NextExtracao == ExtrairProcessar

SpecExtracao == InitExtracao /\ [][NextExtracao]_vars

(* ============================== claims =============================== *)

\* The table names and file paths the environment configures.
TabelaP == getenv("TABELA_PARTICIPANTES")
TabelaR == getenv("TABELA_RESULTADOS")
Chamou(f) == \E k \in 1..Len(chamadas) : chamadas[k] = f

\* C1 (SpecCarga): when carregar_tabela_csv returns, its table holds exactly
\* the rows of the file, in order, whatever the chunksize and whatever the
\* table held before; the row count is the file's.
C1_CargaCompleta ==
    (pc = "csv_done") =>
        /\ nome_tabela \in DOMAIN store
        /\ store[nome_tabela] = fs[caminho_csv]
        /\ Len(store[nome_tabela]) = Len(fs[caminho_csv])

\* C1 witness: a file of three rows loaded in two batches over a table that
\* held an older row.
C1_Witness ==
    /\ pc = "csv_done"
    /\ chunksize = 2
    /\ Len(fs[caminho_csv]) = 3
    /\ Len(escritas) = 2
    /\ nome_tabela \in DOMAIN store0

\* C2 (Spec): in a run that finds both configured tables in the store, no
\* loader is called, no to_sql is issued and the store stays as found.
C2_Idempotente ==
    (TabelaP \in DOMAIN store0 /\ TabelaR \in DOMAIN store0) =>
        /\ chamadas = <<>>
        /\ escritas = <<>>
        /\ store = store0

\* C2 witness: a second run, past verificar_carregar, over the two tables
\* the first run loaded from the files.
C2_Witness ==
    /\ run = 2
    /\ pc = "extract"
    /\ tem_participantes /\ tem_resultados
    /\ TabelaP # TabelaR
    /\ CaminhoP \in DOMAIN fs
    /\ store0[TabelaP] = fs[CaminhoP]
    /\ Len(store0[TabelaR]) = MaxRows

\* verificar_carregar is over: it returned, or a loader's exception left it.
Carregadores == {"carregar_tabela_csv", "carregar_tabela_resultados"}
OrchTerminou ==
    \/ pc = "extract"
    \/ pc = "handler" /\ origem \in Carregadores

\* C3 as stated (Spec): with every variable configured, whenever
\* verificar_carregar is over, the Bulk Loader has run if and only if the
\* participants table was missing at the catalog check and the Join Loader
\* if and only if the results table was.
C3_Original ==
    (DOMAIN env = Keys /\ OrchTerminou) =>
        /\ Chamou("carregar_tabela_csv") <=> TabelaP \notin DOMAIN store0
        /\ Chamou("carregar_tabela_resultados") <=> TabelaR \notin DOMAIN store0

\* C3 amended (Spec): a loader runs only if its table was missing at the
\* catalog check; when verificar_carregar returns, each loader whose table
\* was missing has run; when carregar_tabela_csv raises, the Join Loader
\* does not run; a table that existed at the check is never written; the
\* participants load comes before the results load.
C3_Despacho ==
    /\ Chamou("carregar_tabela_csv") => TabelaP \notin DOMAIN store0
    /\ Chamou("carregar_tabela_resultados") => TabelaR \notin DOMAIN store0
    /\ (pc = "extract") =>
          /\ TabelaP \notin DOMAIN store0 => Chamou("carregar_tabela_csv")
          /\ TabelaR \notin DOMAIN store0
                => Chamou("carregar_tabela_resultados")
    /\ (pc = "handler" /\ origem = "carregar_tabela_csv")
          => chamadas = <<"carregar_tabela_csv">>
    /\ \A t \in DOMAIN store0 : t \in DOMAIN store /\ store[t] = store0[t]
    /\ chamadas \in {<<>>, <<"carregar_tabela_csv">>,
                     <<"carregar_tabela_resultados">>,
                     <<"carregar_tabela_csv", "carregar_tabela_resultados">>}

\* C3 witness: both tables were missing and both loaders ran, in order.
C3_Witness ==
    /\ pc = "extract"
    /\ ~tem_participantes /\ ~tem_resultados
    /\ chamadas = <<"carregar_tabela_csv", "carregar_tabela_resultados">>
    /\ Len(escritas) = 3

\* The source path of a Bulk Loader call is missing; the result file of a
\* Join Loader call is missing.
BulkSemArquivo ==
    /\ chamadas = <<"carregar_tabela_csv">>
    /\ caminho_csv # None
    /\ caminho_csv \notin DOMAIN fs
JoinSemArquivo ==
    /\ chamadas = <<"carregar_tabela_resultados">>
    /\ config["ARQUIVO_RESULTADOS"] \notin DOMAIN fs

\* C4 (SpecCarga): a loader called on a missing source path (Bulk Loader) or
\* with a missing result file (Join Loader) raises FileNotFoundError as its
\* first step, having opened no file and issued no to_sql, and the store is
\* as the call found it.
C4_ArquivoAusente ==
    (pc \notin {"csv_check", "res_check"} /\ (BulkSemArquivo \/ JoinSemArquivo))
        => /\ pc = "raised"
           /\ erro = "FileNotFoundError"
           /\ lidos = {}
           /\ escritas = <<>>
           /\ store = store0

\* C4 witness: the Bulk Loader has raised on a missing path, its target
\* table holding earlier rows.
C4_Witness ==
    /\ pc = "raised"
    /\ BulkSemArquivo
    /\ nome_tabela \in DOMAIN store

\* The five score columns of the claims.
CincoNotas ==
    {"NU_NOTA_CN", "NU_NOTA_CH", "NU_NOTA_LC", "NU_NOTA_MT", "NU_NOTA_REDACAO"}

\* C5 (SpecExtracao): a participant row and a result row with the same
\* registration number are in extrair_processar's output if and only if
\* the income code is A or B and the five scores are all present; every
\* output row has the five scores.
C5_LinhasRetidas ==
    (pc = "extract_done") =>
        LET p == store["participantes"]
            r == store["resultados"]
        IN  /\ \A a \in 1..Len(p), b \in 1..Len(r) :
                  (p[a].NU_INSCRICAO = r[b].NU_INSCRICAO) =>
                     (<<a, b>> \in DOMAIN df <=>
                        /\ p[a].Q006 \in {"A", "B"}
                        /\ \A c \in CincoNotas : r[b][c] # NaN)
            /\ \A x \in DOMAIN df :
                  /\ p[x[1]].NU_INSCRICAO = r[x[2]].NU_INSCRICAO
                  /\ \A c \in CincoNotas : df[x][c] # NaN

\* C5 witness: one joined row is kept and another, whose income code is A
\* and whose essay score is missing, is dropped.
C5_Witness ==
    /\ pc = "extract_done"
    /\ df # <<>>
    /\ \E a \in 1..Len(store["participantes"]),
          b \in 1..Len(store["resultados"]) :
          /\ store["participantes"][a].NU_INSCRICAO
                = store["resultados"][b].NU_INSCRICAO
          /\ store["participantes"][a].Q006 = "A"
          /\ store["resultados"][b].NU_NOTA_REDACAO = NaN
          /\ <<a, b>> \notin DOMAIN df

\* C6 (SpecCarga): when carregar_tabela_resultados returns, the results
\* table holds one row per row of the result file, in order, nothing of its
\* earlier content, row j with the scores of result row j and, the two
\* files having as many rows, the registration number of participant row j.
C6_Posicional ==
    (pc = "res_done") =>
        LET res == fs[config["ARQUIVO_RESULTADOS"]]
            par == fs[config["ARQUIVO_PARTICIPANTES"]]
            tab == store[config["TABELA_RESULTADOS"]]
        IN  /\ Len(tab) = Len(res)
            /\ \A j \in 1..Len(tab) :
                  /\ \A c \in CincoNotas : tab[j][c] = res[j][c]
                  /\ Len(par) = Len(res)
                        => tab[j].NU_INSCRICAO = par[j].NU_INSCRICAO

\* C6 witness: two files of three rows loaded over a results table that
\* held an older row.
C6_Witness ==
    /\ pc = "res_done"
    /\ Len(fs[CaminhoP]) = 3
    /\ Len(store[TabelaR]) = 3
    /\ TabelaR \in DOMAIN store0
    /\ store[TabelaR][3].NU_INSCRICAO = 103

\* C7 as stated (Spec): with a required variable unset, the run creates no
\* output directory, opens no connection, reads and writes no table, and,
\* unless interrupted, ends with a non-zero status.
C7_ConfigObrigatoria ==
    (\E k \in Keys : k \notin DOMAIN env) =>
        /\ ~pasta_criada
        /\ ~conexao
        /\ consultas = {}
        /\ escritas = <<>>
        /\ (pc = "exit" /\ interrompido = "") => status # StatusSucesso

\* C8 as stated (Spec): an interrupted run ends with a status that no other
\* outcome has (not the one of success, not the one of a fatal error) and
\* without a stack trace.
C8_Original ==
    (pc = "exit" /\ interrompido # "") =>
        /\ status \notin {StatusSucesso, StatusErro}
        /\ ~trace

\* C8 amended (Spec): a run interrupted while main() executes ends without
\* a stack trace and with the status of a successful run, which is not the
\* status of a fatal error.
C8_Interrupcao ==
    (pc = "exit" /\ interrompido = "main") =>
        /\ status = StatusSucesso
        /\ status # StatusErro
        /\ ~trace

\* C8 witness: Ctrl+C arrived in the middle of a load.
C8_Witness ==
    /\ pc = "exit"
    /\ interrompido = "main"
    /\ Len(escritas) = 1
    /\ Len(fs[CaminhoP]) = 3

\* C9 (Spec): once a participants load has stopped between two batches, the
\* participants table holds those batches and fewer rows than the file, in
\* that run and in every later one; a later run calls no Bulk Loader and
\* issues no to_sql on that table.
C9_ParcialFica ==
    (parcial # <<>>) =>
        /\ TabelaP \in DOMAIN store
        /\ store[TabelaP] = parcial[1]
        /\ Len(store[TabelaP]) < Len(fs[CaminhoP])
        /\ (TabelaP \in DOMAIN store0 /\ store0[TabelaP] = parcial[1]) =>
              /\ ~Chamou("carregar_tabela_csv")
              /\ \A k \in 1..Len(escritas) : escritas[k][2] # TabelaP

\* C9 witness: a second run has loaded the results table and left the
\* partially loaded participants table alone.
C9_Witness ==
    /\ run = 2
    /\ parcial # <<>>
    /\ pc = "extract"
    /\ tem_participantes
    /\ chamadas = <<"carregar_tabela_resultados">>
    /\ Len(escritas) = 1
    /\ Len(store[TabelaP]) = 2

\* C10 as stated (Spec): with every variable configured, the tables the
\* extraction query names are the two tables the configuration names, the
\* ones verificar_carregar checked and loaded.
C10_MesmasTabelas ==
    (DOMAIN env = Keys /\ consultas # {}) =>
        consultas = {config["TABELA_PARTICIPANTES"], config["TABELA_RESULTADOS"]}

====
